---- MODULE Spec2Model ----
(***************************************************************************)
(* A model of pygmid2aud: the session controller main() of pygmid2aud.py   *)
(* (do-not-disturb guard, noisy-app guard, device routing, capture,        *)
(* restoration, output writing) and the filename incrementer of            *)
(* increment_fname.py.                                                     *)
(*                                                                         *)
(* Strings are sequences of one-character strings.  The file system and    *)
(* the external commands are the environment: a command may fail, and a    *)
(* path's existence is revealed the first time the program asks for it.    *)
(***************************************************************************)
EXTENDS Integers, Sequences, FiniteSets, TLC

(***************************************************************************)
(* Bounds of the model.                                                    *)
(***************************************************************************)
\* longest path drawn exhaustively from PathChars (sample paths are longer)
MaxPathLen == 2
\* largest minimum digit width passed to increment_fname by the driver
MaxNDigits == 2
\* files that may turn out to exist, or be created, in one run
MaxFiles == 3
\* calls of increment_fname the driver makes on one base path
MaxCalls == 2
\* iterations of the trailing-digit scan that are modelled
MaxScan == 18
\* failures of external calls injected in one run of main()
MaxFailures == 1
\* longest MIDI file played, in seconds
MaxDur == 0
\* longest MIDI file played in a capture session taken alone, in seconds
MaxRecDur == 5

(***************************************************************************)
(* Characters and strings.                                                 *)
(***************************************************************************)
DigitSeq == <<"0", "1", "2", "3", "4", "5", "6", "7", "8", "9">>

Digits == {DigitSeq[k] : k \in 1..10}

DigitVal(d) == (CHOOSE k \in 1..10 : DigitSeq[k] = d) - 1

\* the characters short paths are drawn from
PathChars == {"a", "9", "-", "_", " ", ".", "/"}

Max(a, b) == IF a >= b THEN a ELSE b

Min(a, b) == IF a <= b THEN a ELSE b

\* string[-k:] for k >= 1: the last k characters, the whole string when k > len
LastN(s, k) == SubSeq(s, Max(1, Len(s) - k + 1), Len(s))

\* string[:-k] for k >= 1: all but the last k characters
DropLastN(s, k) == SubSeq(s, 1, Len(s) - k)

\* p.rfind(c), 1-based; 0 when c does not occur
RFind(p, c) == IF \E k \in 1..Len(p) : p[k] = c
               THEN CHOOSE k \in 1..Len(p) : p[k] = c /\ \A j \in (k+1)..Len(p) : p[j] # c
               ELSE 0

\* os.path.splitext: the extension starts at the last dot of the last
\* component, unless only dots precede it in that component
Splitext(p) ==
    LET sepIndex == RFind(p, "/")
        dotIndex == RFind(p, ".")
    IN IF dotIndex > sepIndex /\ \E k \in (sepIndex+1)..(dotIndex-1) : p[k] # "."
       THEN [root |-> SubSeq(p, 1, dotIndex - 1), ext |-> SubSeq(p, dotIndex, Len(p))]
       ELSE [root |-> p, ext |-> <<>>]

\* os.path.dirname
Dirname(p) ==
    LET sepIndex == RFind(p, "/")
        head == SubSeq(p, 1, sepIndex)
    IN IF head # <<>> /\ \E k \in 1..Len(head) : head[k] # "/"
       THEN LET last == CHOOSE k \in 1..Len(head) :
                            head[k] # "/" /\ \A j \in (k+1)..Len(head) : head[j] = "/"
            IN SubSeq(head, 1, last)
       ELSE head

\* str.endswith
EndsWith(s, suffix) == Len(s) >= Len(suffix) /\ LastN(s, Len(suffix)) = suffix

(***************************************************************************)
(* int(string): surrounding whitespace is stripped, one sign is allowed,   *)
(* and the rest is decimal digits with single underscores between digits.  *)
(***************************************************************************)
RECURSIVE LStrip(_)
LStrip(s) == IF s # <<>> /\ Head(s) = " " THEN LStrip(Tail(s)) ELSE s

RECURSIVE RStrip(_)
RStrip(s) == IF s # <<>> /\ s[Len(s)] = " " THEN RStrip(SubSeq(s, 1, Len(s) - 1)) ELSE s

Strip(s) == RStrip(LStrip(s))

IntSign(s) == LET t == Strip(s) IN IF t # <<>> /\ t[1] \in {"+", "-"} THEN t[1] ELSE ""

IntBody(s) == LET t == Strip(s) IN IF IntSign(s) # "" THEN Tail(t) ELSE t

IntParses(s) ==
    LET b == IntBody(s)
    IN /\ b # <<>>
       /\ b[1] \in Digits
       /\ b[Len(b)] \in Digits
       /\ \A k \in 1..Len(b) : b[k] \in Digits \cup {"_"}
       /\ \A k \in 1..(Len(b) - 1) : ~(b[k] = "_" /\ b[k+1] = "_")

\* the decimal digits of int(s), in order, underscores dropped
IntDigits(s) == SelectSeq(IntBody(s), LAMBDA c : c \in Digits)

RECURSIVE StripZeros(_)
StripZeros(ds) == IF Len(ds) > 1 /\ Head(ds) = "0" THEN StripZeros(Tail(ds)) ELSE ds

IsZero(ds) == \A k \in 1..Len(ds) : ds[k] = "0"

\* int(s) < 0
IntNegative(s) == IntSign(s) = "-" /\ ~IsZero(IntDigits(s))

\* the decimal digits of a counter plus one (leading zeros kept)
RECURSIVE Incr(_)
Incr(ds) ==
    IF ds = <<>> THEN <<"1">>
    ELSE LET front == SubSeq(ds, 1, Len(ds) - 1)
             last == ds[Len(ds)]
         IN IF last = "9" THEN Incr(front) \o <<"0">>
            ELSE front \o <<DigitSeq[DigitVal(last) + 2]>>

\* str(count + 1) for the counter whose digits are ds
StrNext(ds) == StripZeros(Incr(ds))

\* no padding at all
ZfillNone(s, width) == s

\* str.zfill for an unsigned string
RECURSIVE Zfill(_, _)
Zfill(s, width) == IF Len(s) >= width THEN s ELSE Zfill(<<"0">> \o s, width)

(***************************************************************************)
(* math.log10(count + 1) >= n_digits.  math.log10 returns an IEEE double:  *)
(* the test is exact while count + 1 has fewer than DoubleDigits digits,   *)
(* and from DoubleDigits digits on the logarithm of a number just below    *)
(* 10^n rounds to n itself (math.log10(10**15 - 2) == 15.0).  next is      *)
(* str(count + 1); the rounding band modelled is the one of 15 digits,     *)
(* 10^n - 2 .. 10^n - 1, which wider counters contain.                     *)
(***************************************************************************)
DoubleDigits == 15

Log10RoundsUp(next, n) ==
    /\ n >= DoubleDigits
    /\ Len(next) = n
    /\ \A k \in 1..(n - 1) : next[k] = "9"
    /\ next[n] \in {"8", "9"}

Log10GE(next, n) == Len(next) > n \/ Log10RoundsUp(next, n)

(***************************************************************************)
(* _get_int_at_end_of_string, once its scan has stopped at index i: the    *)
(* scan stops at the first i for which string[-(i+1):] does not parse.     *)
(***************************************************************************)
NoCount == <<"None">>

GetIntAtEnd(string, i, n) ==
    IF i = 0
    THEN [count |-> NoCount, negative |-> FALSE, base_str |-> string, n_digits |-> n]
    ELSE [count |-> IntDigits(LastN(string, i)),
          negative |-> IntNegative(LastN(string, i)),
          base_str |-> DropLastN(string, i),
          n_digits |-> i]

(***************************************************************************)
(* _sub, after the scan: the record of one increment step.  raised is the  *)
(* NotImplementedError("Too many digits to increment").                    *)
(***************************************************************************)
SubOverflow(got) ==
    /\ got.count # NoCount
    /\ ~got.negative
    /\ Log10GE(StrNext(got.count), got.n_digits)

SubStep(p, i, n, allow) ==
    LET sp == Splitext(p)
        got == GetIntAtEnd(sp.root, i, n)
        count == IF got.count = NoCount \/ got.negative THEN <<"0">> ELSE got.count
        over == SubOverflow(got)
        width == IF over /\ allow THEN got.n_digits + 1 ELSE got.n_digits
        i_str == Zfill(StrNext(count), width)
    IN [root |-> sp.root, ext |-> sp.ext, found |-> got.count # NoCount,
        base_str |-> got.base_str, scanned |-> got.n_digits,
        next |-> StrNext(count), overflow |-> over, width |-> width,
        raised |-> over /\ ~allow,
        result |-> got.base_str \o i_str \o sp.ext]

(***************************************************************************)
(* State.                                                                  *)
(***************************************************************************)
VARIABLES
    \* increment_fname: position, the local path and the arguments
    ipc, inc_path, n_digits, inc_overwrite, allow_increase_n_digits,
    \* _get_int_at_end_of_string: the scan index i
    scan_i,
    \* who called increment_fname, and with which path
    inc_caller, inc_arg,
    \* the record of the latest _sub step, and the _sub steps of this call
    sub_log, iters,
    \* the paths the driver's calls returned, each with whether it existed
    returned,
    \* the file system: paths known to exist, paths known not to exist, the
    \* directory os.makedirs created in this run
    fs, absent, fresh_dir,
    \* the system: do-not-disturb state and output device, now and at start
    dnd, dnd0, device, device0,
    \* the environment of one run: .noisy_apps and the process list, the
    \* command line, the MIDI file's duration, whether the output directory
    \* exists
    noisy, midi_path, output_arg, overwrite, dur, outdir_exists,
    \* main(): position and locals
    pc, orig_dnd_status, orig_device, result, out_path,
    \* record(): the capture thread, the frames list, the input stream
    tstate, frames, stream_open, temp_written,
    \* history: the functions main() called, the state-setting commands
    \* issued, the failures injected, what was written over
    calls, cmds, nfail, fail_at, written, clobbered

incVars == <<ipc, inc_path, n_digits, inc_overwrite, allow_increase_n_digits,
             scan_i, inc_caller, inc_arg, sub_log, iters, returned>>

fsVars == <<fs, absent, fresh_dir>>

sysVars == <<dnd, device>>

envVars == <<dnd0, device0, noisy, midi_path, output_arg, overwrite, dur,
             outdir_exists>>

threadVars == <<tstate, frames>>

failVars == <<nfail, fail_at>>

mainVars == <<pc, orig_dnd_status, orig_device, result, out_path, stream_open,
              temp_written, calls, cmds, written, clobbered>>

vars == <<incVars, fsVars, sysVars, envVars, threadVars, failVars, mainVars>>

\* everything main() owns, for the steps of increment_fname
notInc == <<sysVars, envVars, threadVars, failVars, mainVars>>

(***************************************************************************)
(* The file system.  os.path.exists(p) on a path not asked about before    *)
(* reveals whether it exists; at most MaxFiles paths exist.                *)
(***************************************************************************)
\* the path tempfile.mkstemp(suffix=".wav") returns
TempPath == <<"/", "t", "/", "t", "m", "p", ".", "w", "a", "v">>

ExistsAnswers(p) ==
    IF p = <<>> THEN {FALSE}
    ELSE IF p \in fs THEN {TRUE}
    ELSE IF fresh_dir # <<>> /\ Dirname(p) = fresh_dir THEN {FALSE}
    ELSE IF p \in absent THEN {FALSE}
    ELSE IF Cardinality(fs \ {TempPath}) < MaxFiles THEN BOOLEAN
    ELSE {FALSE}

Reveal(p, e) ==
    /\ fs' = IF e THEN fs \cup {p} ELSE fs
    /\ absent' = IF e THEN absent ELSE absent \cup {p}
    /\ UNCHANGED fresh_dir

(***************************************************************************)
(* increment_fname.                                                        *)
(***************************************************************************)
NoLog == [root |-> <<>>, ext |-> <<>>, found |-> FALSE, base_str |-> <<>>,
          scanned |-> 0, next |-> <<>>, overflow |-> FALSE, width |-> 0,
          raised |-> FALSE, result |-> <<>>]

\* line 32-33: one more turn of the while loop calls _sub, which splits the
\* path and starts the scan with i = 0
IncLoop ==
    /\ ipc = "loop"
    /\ ipc' = "scan"
    /\ scan_i' = 0
    /\ UNCHANGED <<inc_path, n_digits, inc_overwrite, allow_increase_n_digits,
                   inc_caller, inc_arg, sub_log, iters, returned, fsVars, notInc>>

\* line 13: int(string[-(i + 1):]) succeeds, line 18: i += 1
ScanStep ==
    /\ ipc = "scan"
    /\ scan_i < MaxScan
    /\ IntParses(LastN(Splitext(inc_path).root, scan_i + 1))
    /\ scan_i' = scan_i + 1
    /\ UNCHANGED <<ipc, inc_path, n_digits, inc_overwrite, allow_increase_n_digits,
                   inc_caller, inc_arg, sub_log, iters, returned, fsVars, notInc>>

\* line 14-17: int() raises ValueError and the scan returns; line 21-30: the
\* rest of _sub, which raises the digit overflow or returns the new path
ScanEnd ==
    /\ ipc = "scan"
    /\ ~IntParses(LastN(Splitext(inc_path).root, scan_i + 1))
    /\ LET st == SubStep(inc_path, scan_i, n_digits, allow_increase_n_digits)
       IN /\ sub_log' = st
          /\ iters' = iters + 1
          /\ ipc' = IF st.raised THEN "raised" ELSE "exists"
          /\ inc_path' = IF st.raised THEN inc_path ELSE st.result
    /\ UNCHANGED <<n_digits, inc_overwrite, allow_increase_n_digits, scan_i,
                   inc_caller, inc_arg, returned, fsVars, notInc>>

\* line 34: overwrite or not os.path.exists(path)
MayReturnAlways(ow, exists) == TRUE

MayReturn(ow, exists) == ow \/ ~exists

\* line 34-35: return the path, or go round the loop again; os.path.exists
\* is not called when overwrite is set
ExistsCheck ==
    /\ ipc = "exists"
    /\ \E e \in IF inc_overwrite THEN {FALSE} ELSE ExistsAnswers(inc_path) :
          /\ IF inc_overwrite THEN UNCHANGED fsVars ELSE Reveal(inc_path, e)
          /\ ipc' = IF MayReturn(inc_overwrite, e) THEN "returned" ELSE "loop"
          /\ returned' = IF MayReturn(inc_overwrite, e) /\ inc_caller = "driver"
                         THEN Append(returned, [path |-> inc_path, existed |-> inc_path \in fs'])
                         ELSE returned
    /\ UNCHANGED <<inc_path, n_digits, inc_overwrite, allow_increase_n_digits,
                   scan_i, inc_caller, inc_arg, sub_log, iters, notInc>>

(***************************************************************************)
(* The environment of main().                                              *)
(***************************************************************************)
Soundflower == "Soundflower (2ch)"

Devices == {"Built-in Output", Soundflower}

Unset == "unset"

NoPath == <<"None">>

\* pygmid2aud.py line 41, 44 and the extra_dur default of get_frames
CHUNK == 1024

RATE == 44100

ExtraDur == 1

Uppers == <<"Z", "O", "M">>

Lowers == <<"z", "o", "m">>

Lower(c) == IF \E k \in 1..Len(Uppers) : Uppers[k] = c
            THEN Lowers[CHOOSE k \in 1..Len(Uppers) : Uppers[k] = c]
            ELSE c

\* re.search(app, ps_result, re.IGNORECASE) for a pattern of literal
\* characters and ".", which matches any character
MatchAt(app, text, off) ==
    \A k \in 1..Len(app) : app[k] = "." \/ Lower(app[k]) = Lower(text[off + k])

ReSearch(app, text) == \E off \in 0..(Len(text) - Len(app)) : MatchAt(app, text, off)

\* line 269-272: the denylist entries found in the process list
OpenApps(apps, ps_result) == SelectSeq(apps, LAMBDA app : ReSearch(app, ps_result))

\* .noisy_apps (present or not, its non-empty lines) and the output of ps aux
NoisyCases ==
    { [file |-> FALSE, apps |-> <<>>, ps |-> <<"z","o","o","m",".","u","s">>],
      [file |-> TRUE, apps |-> <<>>, ps |-> <<"z","o","o","m",".","u","s">>],
      [file |-> TRUE, apps |-> << <<"Z","o","o","m">> >>, ps |-> <<"z","o","o","m",".","u","s">>],
      [file |-> TRUE, apps |-> << <<"Z","o","o","m">> >>, ps |-> <<"b","a","s","h">>],
      [file |-> TRUE, apps |-> << <<"m",".","i","l">>, <<"Z","O","O","M">> >>,
       ps |-> <<"M","a","i","l">>] }

\* the command line: the MIDI path and the -o argument
ArgCases ==
    { [midi |-> <<"d","/","s",".","m","i","d">>, out |-> NoPath],
      [midi |-> <<"s",".","m","i","d">>, out |-> NoPath],
      [midi |-> <<"d","/","s",".","m","i","d">>, out |-> <<"d","/","o",".","w","a","v">>],
      [midi |-> <<"d","/","s",".","m","i","d">>, out |-> <<"d","/","o",".","m","4","a">>],
      [midi |-> <<"d","/","s",".","m","i","d">>, out |-> <<"d","/","o","9",".","m","4","a">>] }

\* the read count without the extra second
FrameCountNoSlack(d) == (RATE * d + CHUNK - 1) \div CHUNK

\* line 125: math.ceil(rate / frames_per_buffer * (dur + extra_dur)), for a
\* duration of whole seconds
FrameCount(d) == (RATE * (d + ExtraDur) + CHUNK - 1) \div CHUNK

(***************************************************************************)
(* Failure injection: an external call may fail while fewer than           *)
(* MaxFailures failures were injected.  A failed command leaves the        *)
(* system state as it was.                                                 *)
(***************************************************************************)
Outcomes == IF nfail < MaxFailures THEN BOOLEAN ELSE {TRUE}

Inject(ok, point) ==
    /\ nfail' = IF ok THEN nfail ELSE nfail + 1
    /\ fail_at' = IF ok THEN fail_at ELSE fail_at \cup {point}

(***************************************************************************)
(* main().                                                                 *)
(***************************************************************************)
\* line 297, dnd_off (241-251): read the status, switch do-not-disturb on
\* when it is "off", return the status read
DndOffOutcomes ==
    {"ok"} \cup (IF nfail < MaxFailures
                 THEN {"status"} \cup (IF dnd = "off" THEN {"on"} ELSE {})
                 ELSE {})

DndOff ==
    /\ pc = "dnd_off"
    /\ \E f \in DndOffOutcomes :
          /\ Inject(f = "ok", "dnd_off")
          /\ pc' = IF f = "ok" THEN "check_for_noisy_apps" ELSE "failed"
          /\ orig_dnd_status' = IF f = "ok" THEN dnd ELSE orig_dnd_status
          /\ cmds' = IF dnd = "off" /\ f # "status" THEN Append(cmds, "dnd on") ELSE cmds
          /\ dnd' = IF dnd = "off" /\ f = "ok" THEN "on" ELSE dnd
    /\ calls' = Append(calls, "dnd_off")
    /\ UNCHANGED <<incVars, fsVars, device, envVars, threadVars, orig_device, result,
                   out_path, stream_open, temp_written, written, clobbered>>

\* line 299, check_for_noisy_apps (259-284): sys.exit(1) when a denylist
\* entry matches the process list; the prompt, the read and ps may fail
CheckForNoisyApps ==
    /\ pc = "check_for_noisy_apps"
    /\ \E ok \in Outcomes :
          /\ Inject(ok, "check_for_noisy_apps")
          /\ pc' = IF ~ok THEN "failed"
                   ELSE IF noisy.file /\ OpenApps(noisy.apps, noisy.ps) # <<>> THEN "exited"
                   ELSE "mkstemp"
    /\ calls' = Append(calls, "check_for_noisy_apps")
    /\ UNCHANGED <<incVars, fsVars, sysVars, envVars, threadVars, orig_dnd_status,
                   orig_device, result, out_path, stream_open, temp_written, cmds,
                   written, clobbered>>

\* line 300: tempfile.mkstemp creates the (empty) temporary file
Mkstemp ==
    /\ pc = "mkstemp"
    /\ \E ok \in Outcomes :
          /\ Inject(ok, "mkstemp")
          /\ pc' = IF ok THEN "get_existing_output_device" ELSE "failed"
          /\ fs' = IF ok THEN fs \cup {TempPath} ELSE fs
    /\ UNCHANGED <<incVars, absent, fresh_dir, sysVars, envVars, threadVars,
                   orig_dnd_status, orig_device, result, out_path, stream_open,
                   temp_written, calls, cmds, written, clobbered>>

\* line 301, get_existing_output_device (57-68)
GetExistingOutputDevice ==
    /\ pc = "get_existing_output_device"
    /\ \E ok \in Outcomes :
          /\ Inject(ok, "get_existing_output_device")
          /\ pc' = IF ok THEN "soundflower_on" ELSE "failed"
          /\ orig_device' = IF ok THEN device ELSE orig_device
    /\ calls' = Append(calls, "get_existing_output_device")
    /\ UNCHANGED <<incVars, fsVars, sysVars, envVars, threadVars, orig_dnd_status,
                   result, out_path, stream_open, temp_written, cmds, written,
                   clobbered>>

\* line 302, soundflower_on (71-77): outside the try statement
SoundflowerOn ==
    /\ pc = "soundflower_on"
    /\ \E ok \in Outcomes :
          /\ Inject(ok, "soundflower_on")
          /\ pc' = IF ok THEN "record" ELSE "failed"
          /\ device' = IF ok THEN Soundflower ELSE device
    /\ calls' = Append(calls, "soundflower_on")
    /\ cmds' = Append(cmds, "switch on")
    /\ UNCHANGED <<incVars, fsVars, dnd, envVars, threadVars, orig_dnd_status,
                   orig_device, result, out_path, stream_open, temp_written, written,
                   clobbered>>

(***************************************************************************)
(* record() (159-182), called inside the try statement of main(): an       *)
(* exception at any step leads to the except clause (line 312).            *)
(***************************************************************************)
\* line 304 and 163: get_dur reads the MIDI file
RecGetDur ==
    /\ pc = "record"
    /\ \E ok \in Outcomes :
          /\ Inject(ok, "get_dur")
          /\ pc' = IF ok THEN "get_pyaudio_and_stream" ELSE "except_soundflower_off"
    /\ calls' = Append(calls, "record")
    /\ UNCHANGED <<incVars, fsVars, sysVars, envVars, threadVars, orig_dnd_status,
                   orig_device, result, out_path, stream_open, temp_written, cmds,
                   written, clobbered>>

\* line 164-168: frames = [], the input stream is opened, time.sleep(1)
RecOpenStream ==
    /\ pc = "get_pyaudio_and_stream"
    /\ \E ok \in Outcomes :
          /\ Inject(ok, "get_pyaudio_and_stream")
          /\ pc' = IF ok THEN "thread_start" ELSE "except_soundflower_off"
          /\ stream_open' = ok
    /\ UNCHANGED <<incVars, fsVars, sysVars, envVars, threadVars, orig_dnd_status,
                   orig_device, result, out_path, temp_written, calls, cmds, written,
                   clobbered>>

\* line 169-172: the capture thread is created and started
RecStartThread ==
    /\ pc = "thread_start"
    /\ pc' = "pygame_play"
    /\ tstate' = "running"
    /\ UNCHANGED <<incVars, fsVars, sysVars, envVars, frames, failVars,
                   orig_dnd_status, orig_device, result, out_path, stream_open,
                   temp_written, calls, cmds, written, clobbered>>

\* get_frames (122-129), in the capture thread: one blocking read appended
\* to frames; a read that raises ends the thread, not main()
ThreadRead ==
    /\ tstate = "running"
    /\ \E ok \in Outcomes :
          /\ Inject(ok, "stream_read")
          /\ frames' = IF ok THEN frames + 1 ELSE frames
          /\ tstate' = IF ~ok THEN "died"
                       ELSE IF frames + 1 >= FrameCount(dur) THEN "finished"
                       ELSE "running"
    /\ UNCHANGED <<incVars, fsVars, sysVars, envVars, mainVars>>

\* line 175: pygame_play
RecPlay ==
    /\ pc = "pygame_play"
    /\ \E ok \in Outcomes :
          /\ Inject(ok, "pygame_play")
          /\ pc' = IF ok THEN "progress_bar" ELSE "except_soundflower_off"
    /\ UNCHANGED <<incVars, fsVars, sysVars, envVars, threadVars, orig_dnd_status,
                   orig_device, result, out_path, stream_open, temp_written, calls,
                   cmds, written, clobbered>>

\* line 176: progress_bar
RecProgressBar ==
    /\ pc = "progress_bar"
    /\ \E ok \in Outcomes :
          /\ Inject(ok, "progress_bar")
          /\ pc' = IF ok THEN "join" ELSE "except_soundflower_off"
    /\ UNCHANGED <<incVars, fsVars, sysVars, envVars, threadVars, orig_dnd_status,
                   orig_device, result, out_path, stream_open, temp_written, calls,
                   cmds, written, clobbered>>

\* a join that does not wait
JoinReturnsAtOnce(t) == TRUE

\* Thread.join returns once the thread has ended
JoinReturns(t) == t # "running"

\* line 177: recording_thread.join() returns once the thread has ended; it
\* may be interrupted before (KeyboardInterrupt)
RecJoin ==
    /\ pc = "join"
    /\ \E ok \in Outcomes :
          /\ ok => JoinReturns(tstate)
          /\ Inject(ok, "join")
          /\ pc' = IF ok THEN "close_pyaudio" ELSE "except_soundflower_off"
    /\ UNCHANGED <<incVars, fsVars, sysVars, envVars, threadVars, orig_dnd_status,
                   orig_device, result, out_path, stream_open, temp_written, calls,
                   cmds, written, clobbered>>

\* line 178: close_pyaudio
RecClosePyaudio ==
    /\ pc = "close_pyaudio"
    /\ \E ok \in Outcomes :
          /\ Inject(ok, "close_pyaudio")
          /\ pc' = IF ok THEN "write_wav" ELSE "except_soundflower_off"
          /\ stream_open' = ~ok
    /\ UNCHANGED <<incVars, fsVars, sysVars, envVars, threadVars, orig_dnd_status,
                   orig_device, result, out_path, temp_written, calls, cmds, written,
                   clobbered>>

\* a test of the frames list that is always true
HasFramesAlways(n) == TRUE

\* line 179: if frames
HasFrames(n) == n > 0

\* line 179-182: write the frames to the temporary file and return True, or
\* return False when there are none
RecWriteWav ==
    /\ pc = "write_wav"
    /\ \E ok \in IF HasFrames(frames) THEN Outcomes ELSE {TRUE} :
          /\ Inject(ok, "write_wav")
          /\ pc' = IF ok THEN "else_soundflower_off" ELSE "except_soundflower_off"
          /\ temp_written' = (ok /\ HasFrames(frames))
          /\ result' = IF ok THEN HasFrames(frames) ELSE result
    /\ UNCHANGED <<incVars, fsVars, sysVars, envVars, threadVars, orig_dnd_status,
                   orig_device, out_path, stream_open, calls, cmds, written,
                   clobbered>>

(***************************************************************************)
(* The restoration, in the except clause (313-315) and in the else clause  *)
(* (317-318) of main().                                                    *)
(***************************************************************************)
\* soundflower_off(orig_device) (80-86); when it raises, main() is left
SoundflowerOff ==
    /\ pc \in {"except_soundflower_off", "else_soundflower_off"}
    /\ \E ok \in Outcomes :
          /\ Inject(ok, "soundflower_off")
          /\ pc' = IF ~ok THEN "failed"
                   ELSE IF pc = "except_soundflower_off" THEN "except_restore_dnd"
                   ELSE "else_restore_dnd"
          /\ device' = IF ok THEN orig_device ELSE device
    /\ calls' = Append(calls, "soundflower_off")
    /\ cmds' = Append(cmds, "switch back")
    /\ UNCHANGED <<incVars, fsVars, dnd, envVars, threadVars, orig_dnd_status,
                   orig_device, result, out_path, stream_open, temp_written, written,
                   clobbered>>

\* a restore that always issues the command
RestoreNeededAlways(orig_status) == TRUE

\* a restore that never issues the command
RestoreNeededNever(orig_status) == FALSE

\* line 255: if orig_status == "off"
RestoreNeeded(orig_status) == orig_status = "off"

\* restore_dnd(orig_dnd_status) (254-256); then line 315 re-raises, or line
\* 319 goes on to write the output when record() returned True
RestoreDnd ==
    /\ pc \in {"except_restore_dnd", "else_restore_dnd"}
    /\ \E ok \in IF RestoreNeeded(orig_dnd_status) THEN Outcomes ELSE {TRUE} :
          /\ Inject(ok, "restore_dnd")
          /\ pc' = IF ~ok \/ pc = "except_restore_dnd" THEN "failed"
                   ELSE IF result THEN "write_to_output_path"
                   ELSE "done"
          /\ dnd' = IF ok /\ RestoreNeeded(orig_dnd_status) THEN "off" ELSE dnd
    /\ calls' = Append(calls, "restore_dnd")
    /\ cmds' = IF RestoreNeeded(orig_dnd_status) THEN Append(cmds, "dnd off") ELSE cmds
    /\ UNCHANGED <<incVars, fsVars, device, envVars, threadVars, orig_dnd_status,
                   orig_device, result, out_path, stream_open, temp_written, written,
                   clobbered>>

(***************************************************************************)
(* write_to_output_path (216-238), called at line 320 when record()        *)
(* returned True.                                                          *)
(***************************************************************************)
M4a == <<".", "m", "4", "a">>

Wav == <<".", "w", "a", "v">>

\* line 217-218: the default output path
OutputPath(midi, out) == IF out = NoPath THEN Splitext(midi).root \o M4a ELSE out

\* line 219: os.path.exists(os.path.dirname(output_path)); os.path.exists("")
\* is False
DirExists(p) == Dirname(p) # <<>> /\ outdir_exists

\* line 221: shutil.move when the path ends with ".wav"; line 225: the file
\* name is incremented when overwrite is not set
AfterMakedirs(p, ow) ==
    IF EndsWith(p, Wav) THEN "shutil_move"
    ELSE IF ~ow THEN "increment_fname"
    ELSE "ffmpeg"

\* line 217-226: the output path, os.makedirs when its directory does not
\* exist (os.makedirs("") raises FileNotFoundError), and the branch taken;
\* increment_fname is called with n_digits=2 and its defaults
WriteStart ==
    /\ pc = "write_to_output_path"
    /\ LET p == OutputPath(midi_path, output_arg)
       IN /\ out_path' = p
          /\ \E ok \in IF DirExists(p) THEN {TRUE}
                       ELSE IF Dirname(p) = <<>> THEN {FALSE}
                       ELSE Outcomes :
                /\ Inject(ok \/ Dirname(p) = <<>>, "makedirs")
                /\ pc' = IF ok THEN AfterMakedirs(p, overwrite) ELSE "failed"
                /\ fresh_dir' = IF ok /\ ~DirExists(p) THEN Dirname(p) ELSE fresh_dir
                /\ IF ok /\ AfterMakedirs(p, overwrite) = "increment_fname"
                   THEN /\ ipc' = "loop"
                        /\ inc_path' = p
                        /\ inc_arg' = p
                        /\ n_digits' = 2
                        /\ inc_overwrite' = FALSE
                        /\ allow_increase_n_digits' = TRUE
                        /\ inc_caller' = "write_to_output_path"
                        /\ iters' = 0
                        /\ sub_log' = NoLog
                        /\ UNCHANGED <<scan_i, returned>>
                   ELSE UNCHANGED incVars
    /\ calls' = Append(calls, "write_to_output_path")
    /\ UNCHANGED <<fs, absent, sysVars, envVars, threadVars, orig_dnd_status,
                   orig_device, result, stream_open, temp_written, cmds, written,
                   clobbered>>

\* line 222-223: shutil.move(temp_out_path, output_path) replaces whatever
\* file is at output_path
WriteMove ==
    /\ pc = "shutil_move"
    /\ \E ok \in Outcomes : \E e \in ExistsAnswers(out_path) :
          /\ Inject(ok, "shutil_move")
          /\ pc' = IF ok THEN "done" ELSE "failed"
          /\ fs' = IF ok THEN (fs \ {TempPath}) \cup {out_path} ELSE fs
          /\ absent' = IF ok THEN absent \ {out_path} ELSE absent
          /\ written' = IF ok THEN out_path ELSE written
          /\ clobbered' = IF ok THEN e ELSE clobbered
    /\ UNCHANGED <<incVars, fresh_dir, sysVars, envVars, threadVars, orig_dnd_status,
                   orig_device, result, out_path, stream_open, temp_written, calls,
                   cmds>>

\* line 226: increment_fname returns the new output path, or raises
IncReturn ==
    /\ pc = "increment_fname"
    /\ ipc \in {"returned", "raised"}
    /\ pc' = IF ipc = "returned" THEN "ffmpeg" ELSE "failed"
    /\ out_path' = IF ipc = "returned" THEN inc_path ELSE out_path
    /\ ipc' = "idle"
    /\ UNCHANGED <<inc_path, n_digits, inc_overwrite, allow_increase_n_digits,
                   scan_i, inc_caller, inc_arg, sub_log, iters, returned, fsVars,
                   sysVars, envVars, threadVars, failVars, orig_dnd_status,
                   orig_device, result, stream_open, temp_written, calls, cmds,
                   written, clobbered>>

\* line 227-238: ffmpeg -y writes over an existing file, ffmpeg -n refuses
\* to and exits non-zero
WriteFfmpeg ==
    /\ pc = "ffmpeg"
    /\ \E ok \in Outcomes : \E e \in ExistsAnswers(out_path) :
          LET done == ok /\ (overwrite \/ ~e)
          IN /\ Inject(ok, "ffmpeg")
             /\ pc' = IF done THEN "done" ELSE "failed"
             /\ fs' = IF done THEN fs \cup {out_path} ELSE fs
             /\ absent' = IF done THEN absent \ {out_path} ELSE absent
             /\ written' = IF done THEN out_path ELSE written
             /\ clobbered' = IF done THEN e ELSE clobbered
    /\ UNCHANGED <<incVars, fresh_dir, sysVars, envVars, threadVars, orig_dnd_status,
                   orig_device, result, out_path, stream_open, temp_written, calls,
                   cmds>>

(***************************************************************************)
(* Initial states.                                                         *)
(***************************************************************************)
IncIdle ==
    /\ ipc = "idle"
    /\ inc_path = <<>>
    /\ inc_arg = <<>>
    /\ n_digits = 0
    /\ inc_overwrite = FALSE
    /\ allow_increase_n_digits = FALSE
    /\ scan_i = 0
    /\ inc_caller = "none"
    /\ sub_log = NoLog
    /\ iters = 0
    /\ returned = <<>>

MainLocals ==
    /\ orig_dnd_status = Unset
    /\ orig_device = Unset
    /\ result = FALSE
    /\ out_path = <<>>
    /\ tstate = "none"
    /\ frames = 0
    /\ stream_open = FALSE
    /\ temp_written = FALSE
    /\ calls = <<>>
    /\ cmds = <<>>
    /\ nfail = 0
    /\ fail_at = {}
    /\ written = <<>>
    /\ clobbered = FALSE

\* main() is not running: the state the driver of increment_fname keeps
MainIdle ==
    /\ pc = "idle"
    /\ dnd0 = "off"
    /\ dnd = "off"
    /\ device0 = "Built-in Output"
    /\ device = "Built-in Output"
    /\ noisy = [file |-> FALSE, apps |-> <<>>, ps |-> <<>>]
    /\ midi_path = <<>>
    /\ output_arg = NoPath
    /\ overwrite = FALSE
    /\ dur = 0
    /\ outdir_exists = FALSE
    /\ MainLocals

\* line 288-296: the state when main() has parsed its arguments
Init ==
    /\ pc = "dnd_off"
    /\ dnd0 \in {"on", "off"}
    /\ dnd = dnd0
    /\ device0 \in Devices
    /\ device = device0
    /\ noisy \in NoisyCases
    /\ \E a \in ArgCases : midi_path = a.midi /\ output_arg = a.out
    /\ overwrite \in BOOLEAN
    /\ dur \in 0..MaxDur
    /\ outdir_exists \in BOOLEAN
    /\ MainLocals
    /\ IncIdle
    /\ fs = {}
    /\ absent = {}
    /\ fresh_dir = <<>>

Next ==
    \/ DndOff
    \/ CheckForNoisyApps
    \/ Mkstemp
    \/ GetExistingOutputDevice
    \/ SoundflowerOn
    \/ RecGetDur
    \/ RecOpenStream
    \/ RecStartThread
    \/ ThreadRead
    \/ RecPlay
    \/ RecProgressBar
    \/ RecJoin
    \/ RecClosePyaudio
    \/ RecWriteWav
    \/ SoundflowerOff
    \/ RestoreDnd
    \/ WriteStart
    \/ WriteMove
    \/ IncLoop
    \/ ScanStep
    \/ ScanEnd
    \/ ExistsCheck
    \/ IncReturn
    \/ WriteFfmpeg

Spec == Init /\ [][Next]_vars

(***************************************************************************)
(* A driver of increment_fname: it creates each returned path and calls    *)
(* again on the same base path.                                            *)
(***************************************************************************)
DriverCreate ==
    /\ ipc = "returned"
    /\ inc_caller = "driver"
    /\ Len(returned) < MaxCalls
    /\ fs' = fs \cup {inc_path}
    /\ absent' = absent \ {inc_path}
    /\ inc_path' = inc_arg
    /\ ipc' = "loop"
    /\ iters' = 0
    /\ sub_log' = NoLog
    /\ UNCHANGED <<n_digits, inc_overwrite, allow_increase_n_digits, scan_i,
                   inc_caller, inc_arg, returned, fresh_dir, notInc>>

\* paths of the spec's and the claims' examples, and a 15-digit counter
SamplePaths ==
    { <<"f","i","l","e","9","9","9",".","t","x","t">>,
      <<"2","0","2","4",".","m","4","a">>,
      <<"d","/","2","0","2","4",".","m","4","a">>,
      <<"a","-","5",".","x">>,
      <<"a","5">>,
      <<"f","9","9","9","9","9","9","9","9","9","9","9","9","9","9","8">> }

ShortPaths == UNION {[1..k -> PathChars] : k \in 0..MaxPathLen}

InputPaths == ShortPaths \cup SamplePaths

InitInc ==
    /\ ipc = "loop"
    /\ inc_path \in InputPaths
    /\ inc_arg = inc_path
    /\ n_digits \in 1..MaxNDigits
    /\ inc_overwrite \in BOOLEAN
    /\ allow_increase_n_digits \in BOOLEAN
    /\ scan_i = 0
    /\ inc_caller = "driver"
    /\ sub_log = NoLog
    /\ iters = 0
    /\ returned = <<>>
    /\ fs = {}
    /\ absent = {}
    /\ fresh_dir = <<>>
    /\ MainIdle

IncStep == IncLoop \/ ScanStep \/ ScanEnd \/ ExistsCheck

NextInc == IncLoop \/ ScanStep \/ ScanEnd \/ ExistsCheck \/ DriverCreate

SpecInc == InitInc /\ [][NextInc]_vars

(***************************************************************************)
(* A capture session: main() from line 304, where it enters record() with  *)
(* the output device rerouted, for MIDI files of up to MaxRecDur seconds.  *)
(***************************************************************************)
InitRec ==
    /\ pc = "record"
    /\ dnd0 \in {"on", "off"}
    /\ dnd = "on"
    /\ orig_dnd_status = dnd0
    /\ device0 \in Devices
    /\ device = Soundflower
    /\ orig_device = device0
    /\ noisy \in {n \in NoisyCases : ~n.file}
    /\ midi_path = <<"d", "/", "s", ".", "m", "i", "d">>
    /\ output_arg = NoPath
    /\ overwrite = FALSE
    /\ dur \in 0..MaxRecDur
    /\ outdir_exists = TRUE
    /\ result = FALSE
    /\ out_path = <<>>
    /\ tstate = "none"
    /\ frames = 0
    /\ stream_open = FALSE
    /\ temp_written = FALSE
    /\ calls = <<"dnd_off", "check_for_noisy_apps", "get_existing_output_device",
                 "soundflower_on">>
    /\ cmds = IF dnd0 = "off" THEN <<"dnd on", "switch on">> ELSE <<"switch on">>
    /\ nfail = 0
    /\ fail_at = {}
    /\ written = <<>>
    /\ clobbered = FALSE
    /\ IncIdle
    /\ fs = {TempPath}
    /\ absent = {}
    /\ fresh_dir = <<>>

NextRec ==
    \/ RecGetDur
    \/ RecOpenStream
    \/ RecStartThread
    \/ ThreadRead
    \/ RecPlay
    \/ RecProgressBar
    \/ RecJoin
    \/ RecClosePyaudio
    \/ RecWriteWav
    \/ SoundflowerOff
    \/ RestoreDnd

SpecRec == InitRec /\ [][NextRec]_vars

(***************************************************************************)
(* Properties of main().                                                   *)
(***************************************************************************)
\* main() has ended: normally, by an uncaught exception, or by sys.exit(1)
Ended == pc \in {"done", "failed", "exited"}

Called(f) == \E k \in DOMAIN calls : calls[k] = f

TimesCalled(f) == Cardinality({k \in DOMAIN calls : calls[k] = f})

\* C1: restoration invariant.  When main() ends after the output device was
\* rerouted (record() was entered) and at most one failure was injected,
\* the output device is the snapshot orig_device and do-not-disturb is the
\* status dnd_off() read.
C1_RestorationInvariant ==
    (Ended /\ Called("record") /\ nfail <= 1)
        => (device = orig_device /\ dnd = orig_dnd_status)

\* C2: the noisy-app abort happens before any system state is mutated.  When
\* check_for_noisy_apps() exits, the output device and do-not-disturb are
\* what they were when the program started.
C2_NoisyAbortBeforeMutation ==
    pc = "exited" => (dnd = dnd0 /\ device = device0)

\* C3: both restorations are attempted.  When main() ends and
\* soundflower_off() was called, restore_dnd() was called too, whether or
\* not soundflower_off() failed.
C3_BothRestorationsAttempted ==
    (Ended /\ Called("soundflower_off")) => Called("restore_dnd")

\* C4: the device restore runs exactly once per successful device query.
\* When main() ends after get_existing_output_device() succeeded,
\* soundflower_off() was called exactly once.
C4_RestoreExactlyOnce ==
    (Ended /\ orig_device # Unset) => TimesCalled("soundflower_off") = 1

\* C5: do-not-disturb is restored on every exit path after dnd_off()
\* enabled it.  When main() ends by an error or by the noisy-app exit, no
\* restore call having failed, and dnd_off() had switched do-not-disturb on,
\* do-not-disturb is off again.
C5_DndRestoredOnEveryExit ==
    (/\ pc \in {"failed", "exited"}
     /\ orig_dnd_status = "off"
     /\ fail_at \cap {"soundflower_off", "restore_dnd"} = {})
        => dnd = "off"

\* C10: without the overwrite flag the final output is never written onto
\* a path that existed before, whatever its extension.
C10_NoOverwriteWithoutFlag ==
    (~overwrite /\ written # <<>>) => ~clobbered

(***************************************************************************)
(* Properties of increment_fname.                                          *)
(***************************************************************************)
\* C6: collision avoidance.  With overwrite=False a returned path does not
\* exist when it is returned, and over calls on one base path, each returned
\* path created before the next call, the returned paths are pairwise
\* distinct and none existed when it was returned.
C6_ReturnedPathsFresh ==
    ~inc_overwrite =>
        /\ ipc = "returned" => inc_path \notin fs
        /\ \A k \in DOMAIN returned :
              /\ ~returned[k].existed
              /\ \A j \in DOMAIN returned : j # k => returned[j].path # returned[k].path

\* a second call has skipped the path the first call returned, which the
\* driver created
C6_Witness ==
    /\ ~inc_overwrite
    /\ ipc = "returned"
    /\ Len(returned) = 2
    /\ returned[1].path \in fs
    /\ iters >= 2

\* C7: termination.  The trailing-digit scan of a stem ends: it tries the
\* suffixes string[-(i + 1):] of the stem, one per turn, so its index i stays
\* within the length of the stem.  (Past that length the slice is the whole
\* stem at every turn, and a turn that parsed it parses it again.)
C7_ScanEndsWithinStem ==
    ipc = "scan" => scan_i <= Len(Splitext(inc_path).root)

\* the stem of a path has no trailing numeric suffix: its last character
\* does not parse as an integer
NoTrailingInt(p) == ~IntParses(LastN(Splitext(p).root, 1))

\* the stem followed by "1" zero-padded to n digits, and the extension
FirstSuffix(p, n) == Splitext(p).root \o Zfill(<<"1">>, n) \o Splitext(p).ext

C9_OverflowRule ==
    iters > 0 =>
        LET needs == Len(sub_log.next) > sub_log.scanned
        IN /\ needs => IF allow_increase_n_digits
                       THEN ~sub_log.raised /\ sub_log.width = sub_log.scanned + 1
                       ELSE sub_log.raised
           /\ ~needs => ~sub_log.raised /\ sub_log.width = sub_log.scanned

RecordPoints ==
    {"get_dur", "get_pyaudio_and_stream", "pygame_play", "progress_bar", "join",
     "close_pyaudio", "write_wav"}

\* record() has returned to main() (line 316)
RecordReturned ==
    /\ Called("record")
    /\ fail_at \cap RecordPoints = {}
    /\ pc \notin {"record", "get_pyaudio_and_stream", "thread_start", "pygame_play",
                  "progress_bar", "join", "close_pyaudio", "write_wav"}

\* C12: zero-frame capture.  When record() has returned with an empty frames
\* list, it returned False, the temporary file was not written,
\* write_to_output_path is not called and no output file is created; and
\* when main() has ended, no restore call having failed, it ended normally
\* with the output device and do-not-disturb restored.
C12_ZeroFrameCapture ==
    (RecordReturned /\ frames = 0)
        => /\ ~result
           /\ ~temp_written
           /\ ~Called("write_to_output_path")
           /\ written = <<>>
           /\ fs = {TempPath}
           /\ (Ended /\ fail_at \cap {"soundflower_off", "restore_dnd"} = {})
                 => /\ pc = "done"
                    /\ device = orig_device
                    /\ dnd = orig_dnd_status

\* main() has ended normally after a capture whose first read raised
C12_Witness ==
    /\ RecordReturned
    /\ frames = 0
    /\ tstate = "died"
    /\ pc = "done"

\* the positions of main() after join() has returned in record()
AfterJoin ==
    {"close_pyaudio", "write_wav", "else_soundflower_off", "else_restore_dnd",
     "write_to_output_path", "shutil_move", "increment_fname", "ffmpeg", "done"}

\* C13: temporal partition of the frames list.  In every step, the list is
\* appended to only while the capture thread runs, the controlling thread
\* reads it (line 179-180) only when the thread has ended, and once join()
\* has returned the list does not change any more.
C13_TemporalPartition ==
    [][/\ frames' # frames => (tstate = "running" /\ frames' = frames + 1)
       /\ pc = "write_wav" => tstate # "running"
       /\ (pc \in AfterJoin /\ fail_at \cap RecordPoints = {}) => frames' = frames]_vars

\* the controlling thread is about to read the list the ended capture
\* thread has filled
C13_Witness ==
    /\ pc = "write_wav"
    /\ tstate = "finished"
    /\ frames = FrameCount(dur)

(***************************************************************************)
(* Properties of one _sub step.                                            *)
(***************************************************************************)
\* C14: width rule.  In every _sub step on a stem that ends in a numeric
\* suffix of width w (sub_log.scanned), the counter is rendered with width
\* max(n_digits, w), plus one when growth is triggered.
C14_WidthRule ==
    (iters > 0 /\ sub_log.found /\ ~sub_log.raised)
        => sub_log.width = Max(n_digits, sub_log.scanned)
                           + (IF sub_log.overflow THEN 1 ELSE 0)

\* the length of the longest run of decimal digits at the end of s
RECURSIVE DigitRunLen(_)
DigitRunLen(s) ==
    IF s # <<>> /\ s[Len(s)] \in Digits
    THEN 1 + DigitRunLen(SubSeq(s, 1, Len(s) - 1))
    ELSE 0

\* C15: suffix replacement.  In every _sub step, count is the value of the
\* longest run of digits at the end of the stem (0 when there is none), the
\* stem-prefix is the stem without exactly that run, and the result is the
\* stem-prefix, the zero-padded count + 1 and the extension.
C15_SuffixReplacement ==
    (iters > 0 /\ ~sub_log.raised)
        => LET run == DigitRunLen(sub_log.root)
           IN /\ sub_log.base_str = DropLastN(sub_log.root, run)
              /\ sub_log.next = StrNext(IF run = 0 THEN <<"0">>
                                         ELSE LastN(sub_log.root, run))
              /\ sub_log.result = sub_log.base_str
                                      \o Zfill(sub_log.next, sub_log.width)
                                      \o sub_log.ext

\* C16: across the iterations of the collision loop of one call.  In every
\* _sub step after the first of a call that does not raise, the digit width
\* is not smaller than that of the step before, the counter is that of the
\* step before plus one, and the stem-prefix and the extension are those of
\* the step before.
C16_LoopMonotonic ==
    [][(iters >= 1 /\ iters' = iters + 1 /\ ~sub_log'.raised)
          => /\ sub_log'.width >= sub_log.width
             /\ sub_log'.next = StrNext(sub_log.next)
             /\ sub_log'.base_str = sub_log.base_str
             /\ sub_log'.ext = sub_log.ext]_vars

(***************************************************************************)
(* Properties of the order of main().                                      *)
(***************************************************************************)
\* C17: restoration precedes output writing.  Once write_to_output_path has
\* been called, record() had returned True with frames captured and written
\* to the temporary file, both restore functions have been called, and the
\* output device and do-not-disturb are what they were at the start; when
\* ffmpeg has failed, the temporary file is still there.
C17_RestorationBeforeWriting ==
    Called("write_to_output_path")
        => /\ result
           /\ frames > 0
           /\ temp_written
           /\ Called("soundflower_off")
           /\ Called("restore_dnd")
           /\ device = orig_device
           /\ device = device0
           /\ dnd = orig_dnd_status
           /\ dnd = dnd0
           /\ "ffmpeg" \in fail_at => (pc = "failed" /\ TempPath \in fs /\ written = <<>>)

\* ffmpeg has failed after do-not-disturb, switched on by dnd_off(), was
\* switched off again
C17_Witness ==
    /\ "ffmpeg" \in fail_at
    /\ pc = "failed"
    /\ dnd0 = "off"
    /\ dnd = "off"
    /\ device0 = "Built-in Output"
    /\ device = "Built-in Output"
    /\ TempPath \in fs

\* C18: the capture thread is joined and the input stream closed before the
\* output device is restored.  Once soundflower_off() has been called, the
\* capture thread, if it was started, is not running and the input stream
\* is not open.
C18_JoinedBeforeDeviceRestore ==
    Called("soundflower_off") => (tstate # "running" /\ ~stream_open)

\* the commands issued that set do-not-disturb, in order
DndCmds == SelectSeq(cmds, LAMBDA c : c \in {"dnd on", "dnd off"})

\* C19: an already-suppressed system is left untouched.  When the status
\* dnd_off() reads is not "off", no command that sets do-not-disturb is
\* ever issued; when it is "off", the commands issued are one "on", by
\* dnd_off(), and after it at most one "off", by restore_dnd().
C19_DndUntouched ==
    /\ dnd0 # "off" => (DndCmds = <<>> /\ dnd = dnd0)
    /\ dnd0 = "off" =>
          /\ DndCmds \in {<<>>, <<"dnd on">>, <<"dnd on", "dnd off">>}
          /\ DndCmds # <<>> => Called("dnd_off")
          /\ Len(DndCmds) = 2 => Called("restore_dnd")
    /\ TimesCalled("restore_dnd") <= 1

\* main() has ended normally on a system that was already suppressed,
\* restore_dnd() having been called
C19_Witness ==
    /\ dnd0 = "on"
    /\ pc = "done"
    /\ Called("restore_dnd")
    /\ DndCmds = <<>>
    /\ written # <<>>

====
